---- MODULE Spec2Model ----
(***************************************************************************)
(* Model of trainer/mbo_lens.py: the camera pipeline (CameraPipeline), the *)
(* objective evaluator (MBOLens.calculate_loss) and the optimization       *)
(* driver (MBOLens.optim) with its diagnostics and its final export.       *)
(*                                                                         *)
(* Tensors are small sequences of abstract elements; values computed by    *)
(* external collaborators (propagation, loss, optimizer update, normalize) *)
(* are symbolic records naming what they were computed from.               *)
(***************************************************************************)
EXTENDS Integers, Sequences, FiniteSets, TLC

\* ------------------------------------------------------------------ bounds
MaxIters == 3
MaxInterval == 4
NumLithoParams == 2

\* StepLR(step_size=25, gamma=0.5): the learning rate is halved every 25
\* scheduler steps.
StepSize == 25

\* The fixed offset added to the rendered profile before the cast.
MaskOffset == 10

Runs == {1, 2}

\* ------------------------------------------------------------------ values
F(v) == [kind |-> "finite", val |-> v]
NaN == [kind |-> "nan", val |-> 0]
PosInf == [kind |-> "inf", val |-> 1]
NegInf == [kind |-> "inf", val |-> -1]

None == [tag |-> "None"]

\* What the free-space propagation model may return for one forward pass
\* (two elements stand for the tensor).
FieldSamples == { <<F(2), F(-1)>>, <<NegInf, F(0)>>, <<F(1), NaN>> }

\* Values the rendered discretized profile may hold (one sequence = one image).
Profiles == { <<0, 100>>, <<245, 246>>, <<300, -20>> }

LossTypes == {"cbr", "deconv_loss", "bogus"}

\* What a float -> uint8 cast of an out-of-range value yields depends on the
\* build: it wraps modulo 256 or it saturates.
CastModes == {"wrap", "saturate"}

VARIABLES
    num_iters,                \* self.num_iters
    loss_type,                \* self.loss_type
    use_scheduler,            \* self.use_scheduler
    use_litho_model_flag,     \* CameraPipeline.use_litho_model_flag
    image_visualize_interval, \* self.image_visualize_interval, per run
    active,                   \* the runs that are executed
    lens_samples,             \* lens_model outputs, by iteration (shared by the runs)
    pc,                       \* per run: position in __init__ / optim
    err,                      \* per run: the exception that ended the run
    litho_params,             \* per run: self.litho_model.parameters()
    st,                       \* per run: optimizer state, optim's locals, call counts
    files                     \* per run: files written below save_dir

vars == <<num_iters, loss_type, use_scheduler, use_litho_model_flag,
          image_visualize_interval, active, lens_samples, pc, err,
          litho_params, st, files>>

config == <<num_iters, loss_type, use_scheduler, use_litho_model_flag,
            image_visualize_interval, active>>

\* ------------------------------------------------------- CameraPipeline
\* torch.abs(x)**2 of one element.
AbsSq(x) ==
    CASE x.kind = "finite" -> F(x.val * x.val)
      [] x.kind = "nan" -> NaN
      [] OTHER -> PosInf

\* psf = torch.abs(self.lens_model(print_pred))**2
psf_of(field) == [k \in DOMAIN field |-> AbsSq(field[k])]

\* A faulty variant of the NaN check: only the first element is inspected.
HasNaN_first(psf) == psf[1].kind = "nan"

\* torch.isnan(psf).any()
HasNaN(psf) == \E k \in DOMAIN psf : psf[k].kind = "nan"

\* mask = self.doe.get_doe_sample(): the sample drawn in iteration i
doe_sample(i) == [tag |-> "mask", sample |-> i]

\* print_pred = litho_model(mask) if use_litho_model_flag else mask
print_pred_of(flag, mask) ==
    IF flag THEN [tag |-> "litho", sample |-> mask.sample] ELSE mask

\* sensor_img = conv2d(batch_target, psf) + sensor_noise(...)
sensor_img_of(psf, i) == [tag |-> "sensor_img", psf |-> psf, noise |-> i]

\* --------------------------------------------------------------- MBOLens
\* load_pretrained_litho_model: the attribute the loop assigns on each
\* parameter is `requries_grad`; `requires_grad` keeps its value.
load_pretrained_litho_model(flag, params) ==
    IF flag
    THEN [k \in DOMAIN params |-> [params[k] EXCEPT !.requries_grad = "False"]]
    ELSE params

\* A parameter receives gradient in backward() iff it requires grad and
\* took part in the forward computation.
ReceivesGrad(param, flag) == flag /\ param.requires_grad

\* (i + 1) % self.image_visualize_interval == 0
RendersAt(i, interval) == (i + 1) % interval = 0

\* visualize: the value returned (psf_save)
visualize(i, interval, psf) ==
    IF RendersAt(i, interval)
    THEN [tag |-> "psf_save", psf |-> psf, itr |-> i]
    ELSE None

\* A faulty variant of calculate_loss: an unknown loss type falls through to
\* the direct-imaging loss instead of raising.
calculate_loss_no_raise(lt, cam_img, psf, i) ==
    IF lt = "deconv_loss"
    THEN [raises |-> FALSE, deconv_calls |-> 1,
          deconv_result |-> [tag |-> "deconv", cam_img |-> cam_img, psf |-> psf],
          loss |-> [fn |-> "smooth_l1", psf |-> psf, sample |-> i]]
    ELSE [raises |-> FALSE, deconv_calls |-> 0, deconv_result |-> None,
          loss |-> [fn |-> "cbr", psf |-> psf, sample |-> i]]

\* A faulty variant of calculate_loss: the deconvolution is run before the
\* loss type is looked at.
calculate_loss_deconv_always(lt, cam_img, psf, i) ==
    LET d == [tag |-> "deconv", cam_img |-> cam_img, psf |-> psf]
    IN  IF lt = "cbr"
        THEN [raises |-> FALSE, deconv_calls |-> 1, deconv_result |-> d,
              loss |-> [fn |-> "cbr", psf |-> psf, sample |-> i]]
        ELSE IF lt = "deconv_loss"
        THEN [raises |-> FALSE, deconv_calls |-> 1, deconv_result |-> d,
              loss |-> [fn |-> "smooth_l1", psf |-> psf, sample |-> i]]
        ELSE [raises |-> TRUE, deconv_calls |-> 1, deconv_result |-> d,
              loss |-> [fn |-> "none", psf |-> psf, sample |-> i]]

\* calculate_loss: raises for an unknown loss type, otherwise the loss, the
\* deconvolution result and the number of deconvolution calls made.
calculate_loss(lt, cam_img, psf, i) ==
    IF lt = "cbr"
    THEN [raises |-> FALSE, deconv_calls |-> 0, deconv_result |-> None,
          loss |-> [fn |-> "cbr", psf |-> psf, sample |-> i]]
    ELSE IF lt = "deconv_loss"
    THEN [raises |-> FALSE, deconv_calls |-> 1,
          deconv_result |-> [tag |-> "deconv", cam_img |-> cam_img, psf |-> psf],
          loss |-> [fn |-> "smooth_l1", psf |-> psf, sample |-> i]]
    ELSE [raises |-> TRUE, deconv_calls |-> 0, deconv_result |-> None,
          loss |-> [fn |-> "none", psf |-> psf, sample |-> i]]

\* A faulty variant of the loop bound: one iteration too many.
LoopContinues_inclusive(i, n) == i <= n

\* for i in range(self.num_iters)
LoopContinues(i, n) == i < n

\* A faulty variant of the scheduler call: it sits inside the diagnostics
\* branch, so the scheduler advances only in rendering iterations.
SchedulerSteps_on_render(r) ==
    use_scheduler /\ RendersAt(st[r].i, image_visualize_interval[r])

\* if self.use_scheduler: self.scheduler.step()
SchedulerSteps(r) == use_scheduler

\* The learning rate in force, as the number of halvings StepLR has applied.
lr_halvings(sched_steps) == sched_steps \div StepSize

\* self.mask_optimizer.step(): the logits are the sequence of updates applied
\* to their initial value; an update is determined by the gradient and by the
\* learning rate, which StepLR derives from its step count (last_epoch).
optimizer_step(logits, grad, sched_steps) ==
    Append(logits, [grad |-> grad, lr |-> lr_halvings(sched_steps),
                    epoch |-> sched_steps])

\* x.astype(np.uint8)
Clip8(x) == IF x < 0 THEN 0 ELSE IF x > 255 THEN 255 ELSE x

astype_uint8(x, mode) ==
    IF 0 <= x /\ x <= 255 THEN x
    ELSE IF mode = "wrap" THEN x % 256 ELSE Clip8(x)

\* mask_to_save = (profile + 10).astype(np.uint8)
mask_to_save_of(profile, mode) ==
    [k \in DOMAIN profile |-> astype_uint8(profile[k] + MaskOffset, mode)]

\* (psf_to_save*255).astype(np.uint8)
psf_to_save_of(psf_save) == [tag |-> "psf_bmp", from |-> psf_save]

\* ------------------------------------------------------------------ state
InitLithoParams ==
    [k \in 1..NumLithoParams |->
        [requires_grad |-> TRUE, requries_grad |-> "unset", grad_accum |-> 0]]

InitSt ==
    [ i |-> 0, loss_list |-> <<>>, itr_list |-> <<>>,
      psf |-> <<>>, mask |-> None, print_pred |-> None, sensor_img |-> None,
      loss |-> None, deconv_img |-> None, psf_save |-> None,
      logits |-> <<>>, logits_grad |-> None,
      opt_steps |-> 0, sched_steps |-> 0,
      n_zero_grad |-> 0, n_forward |-> 0, n_sensor |-> 0, n_loss |-> 0,
      n_deconv |-> 0, n_backward |-> 0, n_render |-> 0,
      ret |-> None ]

NoFiles == [n \in {} |-> <<>>]

InitCommon ==
    /\ num_iters \in 1..MaxIters
    /\ loss_type \in LossTypes
    /\ use_scheduler \in BOOLEAN
    /\ use_litho_model_flag \in BOOLEAN
    /\ lens_samples = <<>>
    /\ pc = [r \in Runs |-> "ctor"]
    /\ err = [r \in Runs |-> "none"]
    /\ litho_params = [r \in Runs |-> InitLithoParams]
    /\ st = [r \in Runs |-> InitSt]
    /\ files = [r \in Runs |-> NoFiles]

\* One run.
Init ==
    /\ InitCommon
    /\ active = {1}
    /\ \E v \in 1..MaxInterval : image_visualize_interval = [r \in Runs |-> v]

\* Two runs that differ only in image_visualize_interval.
InitPair ==
    /\ InitCommon
    /\ active = {1, 2}
    /\ image_visualize_interval \in [Runs -> 1..MaxInterval]

Finished(r) == pc[r] \in {"DONE", "HALTED"}

\* The runs are executed one after the other.
Turn(r) == \A q \in active : q < r => Finished(q)

Halt(r, e) ==
    /\ pc' = [pc EXCEPT ![r] = "HALTED"]
    /\ err' = [err EXCEPT ![r] = e]

\* Run r is at position l and it is its turn.
At(r, l) == r \in active /\ Turn(r) /\ pc[r] = l

Goto(r, l) ==
    /\ pc' = [pc EXCEPT ![r] = l]
    /\ UNCHANGED err

\* ---------------------------------------------------------------- actions
\* MBOLens.__init__
MBOLens_init(r) ==
    /\ At(r, "ctor")
    /\ litho_params' = [litho_params EXCEPT
            ![r] = load_pretrained_litho_model(use_litho_model_flag, @)]
    /\ Goto(r, "INIT")
    /\ UNCHANGED <<config, lens_samples, st, files>>

\* optim: loss_list = []; itr_list = []
optim_begin(r) ==
    /\ At(r, "INIT")
    /\ st' = [st EXCEPT ![r].loss_list = <<>>, ![r].itr_list = <<>>, ![r].i = 0]
    /\ Goto(r, "loop")
    /\ UNCHANGED <<config, lens_samples, litho_params, files>>

\* loop head, then self.mask_optimizer.zero_grad()
zero_grad(r) ==
    /\ At(r, "loop")
    /\ LoopContinues(st[r].i, num_iters)
    /\ st' = [st EXCEPT ![r].logits_grad = None, ![r].n_zero_grad = @ + 1]
    /\ Goto(r, "camera")
    /\ UNCHANGED <<config, lens_samples, litho_params, files>>

loop_exit(r) ==
    /\ At(r, "loop")
    /\ ~LoopContinues(st[r].i, num_iters)
    /\ Goto(r, "FINALIZE")
    /\ UNCHANGED <<config, lens_samples, litho_params, st, files>>

\* self.camera(batch_target, self.litho_model)
camera_forward(r) ==
    /\ At(r, "camera")
    /\ \E field \in FieldSamples :
        LET i == st[r].i
            mask == doe_sample(i)
            psf == psf_of(field)
        IN  /\ IF i + 1 <= Len(lens_samples)
               THEN field = lens_samples[i + 1] /\ UNCHANGED lens_samples
               ELSE lens_samples' = Append(lens_samples, field)
            /\ IF HasNaN(psf)
               THEN /\ Halt(r, "nan_psf")
                    /\ st' = [st EXCEPT ![r].n_forward = @ + 1]
               ELSE /\ Goto(r, "loss")
                    /\ st' = [st EXCEPT
                          ![r].n_forward = @ + 1,
                          ![r].n_sensor = @ + 1,
                          ![r].psf = psf,
                          ![r].mask = mask,
                          ![r].print_pred = print_pred_of(use_litho_model_flag, mask),
                          ![r].sensor_img = sensor_img_of(psf, i)]
    /\ UNCHANGED <<config, litho_params, files>>

\* self.calculate_loss(sensor_img, batch_target, psf)
loss_eval(r) ==
    /\ At(r, "loss")
    /\ LET res == calculate_loss(loss_type, st[r].sensor_img, st[r].psf, st[r].i)
       IN  IF res.raises
           THEN /\ Halt(r, "wrong_type")
                /\ st' = [st EXCEPT ![r].n_deconv = @ + res.deconv_calls]
           ELSE /\ Goto(r, "backward")
                /\ st' = [st EXCEPT
                      ![r].n_loss = @ + 1,
                      ![r].n_deconv = @ + res.deconv_calls,
                      ![r].loss = res.loss,
                      ![r].deconv_img = res.deconv_result]
    /\ UNCHANGED <<config, lens_samples, litho_params, files>>

\* loss.backward()
loss_backward(r) ==
    /\ At(r, "backward")
    /\ st' = [st EXCEPT ![r].logits_grad = st[r].loss, ![r].n_backward = @ + 1]
    /\ litho_params' = [litho_params EXCEPT ![r] =
            [k \in DOMAIN @ |->
                IF ReceivesGrad(litho_params[r][k], use_litho_model_flag)
                THEN [litho_params[r][k] EXCEPT !.grad_accum = @ + 1]
                ELSE litho_params[r][k]]]
    /\ Goto(r, "step")
    /\ UNCHANGED <<config, lens_samples, files>>

\* self.mask_optimizer.step()
mask_optimizer_step(r) ==
    /\ At(r, "step")
    /\ st' = [st EXCEPT
          ![r].logits = optimizer_step(@, st[r].logits_grad, st[r].sched_steps),
          ![r].opt_steps = @ + 1]
    /\ Goto(r, "sched")
    /\ UNCHANGED <<config, lens_samples, litho_params, files>>

\* if self.use_scheduler: self.scheduler.step()
scheduler_step(r) ==
    /\ At(r, "sched")
    /\ st' = [st EXCEPT ![r].sched_steps = IF SchedulerSteps(r) THEN @ + 1 ELSE @]
    /\ Goto(r, "append")
    /\ UNCHANGED <<config, lens_samples, litho_params, files>>

\* loss_list.append(loss.item()); itr_list.append(i)
append_history(r) ==
    /\ At(r, "append")
    /\ st' = [st EXCEPT
          ![r].loss_list = Append(@, st[r].loss),
          ![r].itr_list = Append(@, st[r].i)]
    /\ Goto(r, "visualize")
    /\ UNCHANGED <<config, lens_samples, litho_params, files>>

\* psf_save = self.visualize(...), then the loop advances
visualize_step(r) ==
    /\ At(r, "visualize")
    /\ st' = [st EXCEPT
          ![r].psf_save = visualize(st[r].i, image_visualize_interval[r], st[r].psf),
          ![r].n_render = IF RendersAt(st[r].i, image_visualize_interval[r])
                          THEN @ + 1 ELSE @,
          ![r].i = @ + 1]
    /\ Goto(r, "loop")
    /\ UNCHANGED <<config, lens_samples, litho_params, files>>

\* self.save_optimized_psf_mask(psf_save); return mask_logits, print_pred
save_optimized_psf_mask(r) ==
    /\ At(r, "FINALIZE")
    /\ \E profile \in Profiles, mode \in CastModes :
        LET mask_to_save == mask_to_save_of(profile, mode)
        IN  IF st[r].psf_save = None
            THEN \* psf_save.numpy() on None
                 /\ Halt(r, "attribute_error")
                 /\ UNCHANGED <<st, files>>
            ELSE /\ files' = [files EXCEPT ![r] =
                        ("mask.bmp" :> [profile |-> profile, data |-> mask_to_save])
                        @@ ("psf.bmp" :> [profile |-> <<>>,
                                          data |-> psf_to_save_of(st[r].psf_save)])]
                 /\ st' = [st EXCEPT ![r].ret =
                        [tag |-> "ret", mask_logits |-> profile,
                         print_pred |-> st[r].print_pred]]
                 /\ Goto(r, "DONE")
    /\ UNCHANGED <<config, lens_samples, litho_params>>

Next ==
    \E r \in Runs :
        \/ MBOLens_init(r)
        \/ optim_begin(r)
        \/ zero_grad(r)
        \/ loop_exit(r)
        \/ camera_forward(r)
        \/ loss_eval(r)
        \/ loss_backward(r)
        \/ mask_optimizer_step(r)
        \/ scheduler_step(r)
        \/ append_history(r)
        \/ visualize_step(r)
        \/ save_optimized_psf_mask(r)

Spec == Init /\ [][Next]_vars

SpecPair == InitPair /\ [][Next]_vars

\* ------------------------------------------------------------ properties
KnownLossTypes == {"cbr", "deconv_loss"}

Artifacts == {"mask.bmp", "psf.bmp"}

\* Position inside one iteration: the number of its operations already done.
Ord(l) ==
    CASE l = "camera" -> 1
      [] l = "loss" -> 2
      [] l = "backward" -> 3
      [] l = "step" -> 4
      [] l = "sched" -> 5
      [] l = "append" -> 6
      [] l = "visualize" -> 7
      [] OTHER -> 0

InIteration == {"camera", "loss", "backward", "step", "sched", "append", "visualize"}

B(c) == IF c THEN 1 ELSE 0

ContainsNaN(t) == \E k \in DOMAIN t : t[k] = NaN

ContainsInf(t) == \E k \in DOMAIN t : t[k] = PosInf \/ t[k] = NegInf

\* The PSF computed in the iteration with index j (0-based), once computed.
PsfAt(j) == [k \in DOMAIN lens_samples[j + 1] |->
                IF lens_samples[j + 1][k].kind = "finite"
                THEN F(lens_samples[j + 1][k].val * lens_samples[j + 1][k].val)
                ELSE IF lens_samples[j + 1][k] = NaN THEN NaN ELSE PosInf]

\* C1: a run with a recognised loss type and no NaN in any PSF never halts
\* and, once it has returned, exactly mask.bmp and psf.bmp have been written.
C1_RunCompletesWithBothArtifacts ==
    \A r \in active :
        (loss_type \in KnownLossTypes /\ err[r] # "nan_psf") =>
            /\ pc[r] # "HALTED"
            /\ (pc[r] = "DONE" => DOMAIN files[r] = Artifacts)
            /\ (pc[r] # "DONE" => DOMAIN files[r] = {})

\* C2 (as stated): with an unrecognised loss type the run ends by the
\* exception of calculate_loss, in the first iteration, with no optimizer
\* step, initial logits, empty history and no artifact.
C2_RaisesFromCalculateLoss ==
    \A r \in active :
        (loss_type \notin KnownLossTypes /\ pc[r] = "HALTED") =>
            /\ err[r] = "wrong_type"
            /\ st[r].i = 0
            /\ st[r].opt_steps = 0
            /\ st[r].logits = <<>>
            /\ st[r].loss_list = <<>>
            /\ DOMAIN files[r] = {}

\* C2 (amended): with an unrecognised loss type the run never gets past the
\* loss evaluation of the first iteration; it ends by the exception of
\* calculate_loss when the first PSF holds no NaN and by the exception of
\* get_psf when it does; in either case no optimizer step was taken, the
\* logits are the initial ones, the history is empty and no file is written.
C2_UnknownLossTypeHaltsBeforeStep ==
    \A r \in active :
        loss_type \notin KnownLossTypes =>
            /\ pc[r] \in {"ctor", "INIT", "loop", "camera", "loss", "HALTED"}
            /\ st[r].i = 0
            /\ st[r].n_backward = 0
            /\ st[r].opt_steps = 0
            /\ st[r].sched_steps = 0
            /\ st[r].logits = <<>>
            /\ st[r].loss_list = <<>>
            /\ DOMAIN files[r] = {}
            /\ (pc[r] = "HALTED" =>
                    err[r] = IF ContainsNaN(PsfAt(0)) THEN "nan_psf" ELSE "wrong_type")

C2_Witness ==
    \E r \in active :
        loss_type = "bogus" /\ pc[r] = "HALTED" /\ err[r] = "wrong_type"

\* C3: a PSF with a NaN element halts the run in the iteration that computed
\* it: no sensor image, loss, backward pass, optimizer or scheduler step and
\* no history entry of that iteration exists, no later iteration has begun,
\* FINALIZE is not entered and no file is written.
C3_NaNHaltsRun ==
    \A r \in active :
        /\ \A j \in 1..st[r].n_forward :
              ContainsNaN(PsfAt(j - 1)) =>
                  pc[r] = "HALTED" /\ err[r] = "nan_psf" /\ st[r].i = j - 1
        /\ err[r] = "nan_psf" =>
              /\ pc[r] = "HALTED"
              /\ ContainsNaN(PsfAt(st[r].i))
              /\ st[r].n_zero_grad = st[r].i + 1
              /\ st[r].n_forward = st[r].i + 1
              /\ st[r].n_sensor = st[r].i
              /\ st[r].n_loss = st[r].i
              /\ st[r].n_backward = st[r].i
              /\ st[r].opt_steps = st[r].i
              /\ st[r].sched_steps = (IF use_scheduler THEN st[r].i ELSE 0)
              /\ Len(st[r].loss_list) = st[r].i
              /\ Len(st[r].logits) = st[r].i
              /\ DOMAIN files[r] = {}
              /\ st[r].ret = None

C3_Witness ==
    \E r \in active :
        err[r] = "nan_psf" /\ st[r].i = 1 /\ lens_samples[2] = <<F(1), NaN>>

\* C4: the number of deconvolution calls follows from loss_type alone: none
\* with 'cbr' (and deconv_result is None), one per loss evaluation with
\* 'deconv_loss', hence k after k completed iterations.
C4_DeconvCallCount ==
    \A r \in active :
        /\ loss_type = "cbr" => st[r].n_deconv = 0 /\ st[r].deconv_img = None
        /\ loss_type \notin KnownLossTypes => st[r].n_deconv = 0
        /\ loss_type = "deconv_loss" =>
              /\ st[r].n_deconv = st[r].i + B(Ord(pc[r]) >= 3)
              /\ st[r].n_deconv = st[r].n_loss
              /\ (Ord(pc[r]) >= 3 => st[r].deconv_img # None)

C4_Witness ==
    \E r \in active :
        /\ loss_type = "deconv_loss" /\ pc[r] = "loop"
        /\ st[r].i = 2 /\ st[r].n_deconv = 2

\* C5: with pretrained weights, every lithography parameter is marked as
\* not requiring gradient once the checkpoint is loaded, and no backward
\* pass accumulates gradient into a lithography parameter.
C5_LithoParamsFrozen ==
    \A r \in active :
        (use_litho_model_flag /\ pc[r] # "ctor") =>
            \A k \in DOMAIN litho_params[r] :
                /\ ~litho_params[r][k].requires_grad
                /\ litho_params[r][k].grad_accum = 0

\* C6: iterations run one after the other, each doing zero_grad, camera
\* forward, loss, backward, one optimizer step, the scheduler step iff
\* use_scheduler, and the history append, in this order; after k completed
\* iterations the optimizer step count and the history length are k, and a
\* run that leaves the loop has done exactly num_iters iterations.
C6_IterationOrder ==
    \A r \in active :
        (pc[r] # "HALTED" \/ err[r] = "attribute_error") =>
            LET k == st[r].i
                o == Ord(pc[r])
            IN  /\ k <= num_iters
                /\ (pc[r] \in InIteration => k < num_iters)
                /\ (pc[r] \in {"FINALIZE", "DONE", "HALTED"} => k = num_iters)
                /\ (pc[r] \in {"ctor", "INIT"} => k = 0)
                /\ st[r].n_zero_grad = k + B(o >= 1)
                /\ st[r].n_forward = k + B(o >= 2)
                /\ st[r].n_sensor = k + B(o >= 2)
                /\ st[r].n_loss = k + B(o >= 3)
                /\ st[r].n_backward = k + B(o >= 4)
                /\ st[r].opt_steps = k + B(o >= 5)
                /\ Len(st[r].logits) = st[r].opt_steps
                /\ st[r].sched_steps = (IF use_scheduler THEN k + B(o >= 6) ELSE 0)
                /\ Len(st[r].loss_list) = k + B(o >= 7)
                /\ st[r].itr_list = [j \in 1..(k + B(o >= 7)) |-> j - 1]
                /\ st[r].n_render = k \div image_visualize_interval[r]

C6_Witness ==
    \E r \in active :
        /\ pc[r] = "DONE" /\ num_iters = 3 /\ use_scheduler
        /\ st[r].opt_steps = 3 /\ st[r].sched_steps = 3
        /\ Len(st[r].loss_list) = 3

\* C7: a PSF that the camera pipeline returned, and that the sensor image
\* and the loss are formed from, holds no NaN and no Inf element.
C7_PsfFinite ==
    \A r \in active :
        st[r].n_sensor > 0 =>
            ~ContainsNaN(st[r].psf) /\ ~ContainsInf(st[r].psf)

\* C8: every pixel of mask.bmp is the profile value plus 10, clipped to
\* [0, 255].
C8_MaskPixelsClipped ==
    \A r \in active :
        "mask.bmp" \in DOMAIN files[r] =>
            LET f == files[r]["mask.bmp"]
            IN  \A k \in DOMAIN f.profile :
                    f.data[k] =
                        (IF f.profile[k] + 10 > 255 THEN 255
                         ELSE IF f.profile[k] + 10 < 0 THEN 0
                         ELSE f.profile[k] + 10)

\* The last iteration index below num_iters that renders diagnostics.
LastRender(r) ==
    num_iters - (num_iters % image_visualize_interval[r]) - 1

\* C9: when some iteration rendered diagnostics, the snapshot FINALIZE gets
\* (and writes to psf.bmp) is the one of the last rendering iteration.
C9_FinalizeUsesLastSnapshot ==
    \A r \in active :
        (pc[r] \in {"FINALIZE", "DONE"}
         /\ image_visualize_interval[r] <= num_iters) =>
            /\ st[r].psf_save # None
            /\ st[r].psf_save.itr = LastRender(r)
            /\ st[r].psf_save.psf = PsfAt(LastRender(r))
            /\ (pc[r] = "DONE" =>
                    files[r]["psf.bmp"].data.from = st[r].psf_save)

\* C10: diagnostics are rendered exactly in the iterations i with
\* (i+1) mod image_visualize_interval = 0, and two runs that differ only in
\* image_visualize_interval take the same optimizer and scheduler steps:
\* after every iteration both have completed, their logits and their loss
\* histories agree, and they end after the same number of iterations.
C10_VisualizeDoesNotInfluence ==
    /\ \A r \in active :
          /\ st[r].n_render = st[r].i \div image_visualize_interval[r]
          /\ (pc[r] = "loop" /\ st[r].i > 0) =>
                (st[r].psf_save # None <=>
                    st[r].i % image_visualize_interval[r] = 0)
    /\ \A r1 \in active : \A r2 \in active :
          LET k == IF st[r1].i <= st[r2].i THEN st[r1].i ELSE st[r2].i
          IN  /\ SubSeq(st[r1].logits, 1, k) = SubSeq(st[r2].logits, 1, k)
              /\ SubSeq(st[r1].loss_list, 1, k) = SubSeq(st[r2].loss_list, 1, k)
              /\ SubSeq(st[r1].itr_list, 1, k) = SubSeq(st[r2].itr_list, 1, k)
              /\ (Finished(r1) /\ Finished(r2)) =>
                    /\ st[r1].i = st[r2].i
                    /\ st[r1].logits = st[r2].logits
                    /\ st[r1].loss_list = st[r2].loss_list
                    /\ st[r1].opt_steps = st[r2].opt_steps
                    /\ st[r1].sched_steps = st[r2].sched_steps

C10_Witness ==
    /\ active = {1, 2}
    /\ Finished(1) /\ Finished(2)
    /\ image_visualize_interval[1] # image_visualize_interval[2]
    /\ st[1].n_render # st[2].n_render
    /\ st[1].i = 3 /\ st[2].i = 3
    /\ use_scheduler
    /\ st[1].logits = st[2].logits /\ Len(st[1].logits) = 3

====
